---- MODULE Spec2Model ----
(***************************************************************************)
(* State-machine model of src/index.js, the OAuth2 callback server.        *)
(*                                                                         *)
(* src/index.js holds two copies of the program.  Lines 1-135 are the      *)
(* first copy (pool always created, persistence errors reach the outer     *)
(* catch); lines 137-329 are the second copy (nullable dbPool, file        *)
(* fallback, DEBUG, invalid_grant).  The variable `build` says which copy  *)
(* is the running program; everything the copies share textually is        *)
(* modelled once, everything that differs has one definition per copy.     *)
(*                                                                         *)
(* Every `await` of the source is a step boundary: an action runs a        *)
(* handler from one await (or its entry) up to the next await (or its      *)
(* return), which is how the JavaScript event loop interleaves handlers.   *)
(***************************************************************************)
EXTENDS Integers, Sequences, FiniteSets, TLC

(* ------------------------------ bounds -------------------------------- *)
MaxReqs == 2

Reqs == 1..MaxReqs

UserIds == {"U1", "U2"}

(* ------------------------------ state --------------------------------- *)
VARIABLES
  build,          \* "v1": lines 1-135 run; "v2": lines 137-329 run
  hasDbConfig,    \* MYSQLHOST && MYSQLUSER && MYSQLPASSWORD && MYSQLDATABASE
  env,            \* which of REDIRECT_URI, CLIENT_ID, CLIENT_SECRET are set
  FILE_FALLBACK,  \* process.env.FILE_FALLBACK: "true", "1" (set, not 'true'), "unset"
  DEBUG,          \* process.env.DEBUG: "true" or "unset"
  loaded,         \* the module body has run (pool created, initDatabase() called, listen)
  dbPool,         \* the module-level dbPool: "null" or "pool"
  poolEnded,      \* dbPool.end() has been called on the pool object
  initPc,         \* position of the initDatabase() call
  initResult,     \* "none", "skipped", "ok", "failed"
  rows,           \* rows of table Tokens
  nextId,         \* AUTO_INCREMENT counter of Tokens.id
  tokensLog,      \* lines of tokens.log
  cb,             \* /callback requests: position, locals, response, call counters
  chk,            \* the /check request in progress (or the last one answered)
  upserted        \* history: user ids whose INSERT ... ON DUPLICATE KEY UPDATE succeeded

vars == <<build, hasDbConfig, env, FILE_FALLBACK, DEBUG, loaded, dbPool, poolEnded,
          initPc, initResult, rows, nextId, tokensLog, cb, chk, upserted>>

config == <<build, hasDbConfig, env, FILE_FALLBACK, DEBUG>>

cb0 ==
  [pc |-> "idle", code |-> "undefined", accessToken |-> "undefined",
   refreshToken |-> "undefined", discordUserId |-> "undefined",
   status |-> 0, body |-> "none", tokenOutcome |-> "none", userOutcome |-> "none",
   sawPool |-> "untested", exchangeCalls |-> 0, profileCalls |-> 0,
   connCalls |-> 0, insertCalls |-> 0, insertOk |-> FALSE,
   fileCalls |-> 0, fileErr |-> FALSE]

chk0 ==
  [pc |-> "idle", userId |-> "undefined", noUser |-> FALSE, status |-> 0,
   hasToken |-> FALSE, connCalls |-> 0, selectCalls |-> 0, selectOk |-> FALSE]

Init ==
  /\ build \in {"v1", "v2"}
  /\ hasDbConfig \in BOOLEAN
  /\ env \in [{"REDIRECT_URI", "CLIENT_ID", "CLIENT_SECRET"} -> BOOLEAN]
  /\ FILE_FALLBACK \in {"true", "1", "unset"}
  /\ DEBUG \in {"true", "unset"}
  \* the first copy reads none of the three: one value each is enough for it
  /\ build = "v1" => hasDbConfig /\ FILE_FALLBACK = "unset" /\ DEBUG = "unset"
  /\ loaded = FALSE
  /\ dbPool = "null"
  /\ poolEnded = FALSE
  /\ initPc = "notStarted"
  /\ initResult = "none"
  /\ rows = {}
  /\ nextId = 1
  /\ tokensLog = <<>>
  /\ cb = [r \in Reqs |-> cb0]
  /\ chk = chk0
  /\ upserted = {}

(* --------------------------- pure helpers ----------------------------- *)
\* JavaScript falsiness of a query parameter or response field: `!x`, `x || y`.
Falsy(v) == v \in {"undefined", ""}

\* First copy, lines 16-23: the pool is created unconditionally.
CreatePoolV1 == "pool"

\* Second copy, lines 160-174: the pool is created only when hasDbConfig.
CreatePoolV2 == IF hasDbConfig THEN "pool" ELSE "null"

\* A slip of line 216: only the empty string is refused.
CodeMissingStrict(code) == code = ""

\* Line 216 (and 54): if (!code) return res.status(400)...
CodeMissing(code) == Falsy(code)

\* A slip of line 222: && for ||.
ConfigMissingAll == ~env["REDIRECT_URI"] /\ ~env["CLIENT_ID"] /\ ~env["CLIENT_SECRET"]

\* Line 222 (and 60): if (!redirectUri || !clientId || !clientSecret)
ConfigMissing == ~env["REDIRECT_URI"] \/ ~env["CLIENT_ID"] \/ ~env["CLIENT_SECRET"]

\* A slip of lines 235-245: the profile GET issued whatever the POST returned.
IssuesProfileFetchAlways(outcome) == TRUE

\* Lines 239-243: the profile GET is issued only in the straight-line path after
\* the token POST has resolved; a rejected POST jumps to the catch block.
IssuesProfileFetch(outcome) == outcome = "ok"

\* Lines 286-293 (and 102-109): res.send(<html>) with the default status.
SuccessPage == [status |-> 200, body |-> "HTML_AUTORIZADO"]

\* First copy, lines 110-113: every error caught is answered 500.
CatchCallbackV1(err) == [status |-> 500, body |-> "ERRO_AO_AUTORIZAR"]

\* Second copy, lines 294-307.  err is what the rejected call carried:
\* "invalid_grant" (error.response.data.error === 'invalid_grant') or
\* "other" (another response body, or no error.response at all).
CatchCallbackV2(err) ==
  IF DEBUG = "true" THEN [status |-> 500, body |-> "ERRO_AO_AUTORIZAR_DETALHES"]
  ELSE IF err = "invalid_grant" THEN [status |-> 400, body |-> "REINICIE_O_FLUXO"]
  ELSE [status |-> 500, body |-> "ERRO_AO_AUTORIZAR"]

CatchCallback(err) == IF build = "v1" THEN CatchCallbackV1(err) ELSE CatchCallbackV2(err)

\* A failed getConnection()/INSERT in /callback.  Second copy, lines 261-265: caught
\* and logged, the handler goes on to res.send.  First copy, lines 88-100: try/finally
\* without catch, the error reaches the outer catch of lines 110-113.
OnPersistError ==
  IF build = "v1" THEN CatchCallbackV1("other") ELSE SuccessPage

\* A slip of line 270: a truthiness test instead of === 'true'.
UseFileTruthy == FILE_FALLBACK # "unset"

\* Line 270: const useFile = process.env.FILE_FALLBACK === 'true'
UseFile == FILE_FALLBACK = "true"

\* Lines 272-277: the record written to tokens.log (one JSON object per line).
FallbackRecord(uid, access, refresh) ==
  [created_at |-> "toISOString", user_id |-> uid, access_token |-> access,
   refresh_token |-> IF Falsy(refresh) THEN "null" ELSE refresh]

\* A slip of lines 254-259: a plain INSERT into a table without the UNIQUE key.
UpsertPlainInsert(rws, id, uid, access, refresh) ==
  rws \cup {[id |-> id, user_id |-> uid, access_token |-> access,
             refresh_token |-> IF Falsy(refresh) THEN "" ELSE refresh]}

\* Lines 254-259 with the UNIQUE key of lines 183-189:
\* INSERT ... ON DUPLICATE KEY UPDATE access_token, refresh_token.
\* The bound parameters are [discordUserId, accessToken, refreshToken || ''].
Upsert(rws, id, uid, access, refresh) ==
  LET rf == IF Falsy(refresh) THEN "" ELSE refresh IN
  IF \E row \in rws : row.user_id = uid
    THEN {IF row.user_id = uid
            THEN [row EXCEPT !.access_token = access, !.refresh_token = rf]
            ELSE row : row \in rws}
    ELSE rws \cup {[id |-> id, user_id |-> uid, access_token |-> access,
                    refresh_token |-> rf]}

\* A slip of line 320: the WHERE clause left out.
SelectIdsNoWhere(rws, uid) ==
  LET hit == {row.id : row \in rws} IN
  IF hit = {} THEN {} ELSE {CHOOSE i \in hit : \A j \in hit : i <= j}

\* Line 320: SELECT id FROM Tokens WHERE user_id = ? LIMIT 1
SelectIds(rws, uid) ==
  LET hit == {row.id : row \in {x \in rws : x.user_id = uid}} IN
  IF hit = {} THEN {} ELSE {CHOOSE i \in hit : \A j \in hit : i <= j}

\* Line 321: res.json({ hasToken: rows.length > 0 })
CheckAnswer(rws, uid) == [status |-> 200, hasToken |-> Cardinality(SelectIds(rws, uid)) > 0]

\* Line 315: res.json({ hasToken: false }) for a missing user_id.
CheckNoUser == [status |-> 200, hasToken |-> FALSE]

\* A slip of lines 322-323: the error answered as a failure.
CheckCatchRethrow == [status |-> 500, hasToken |-> FALSE]

\* Lines 322-323: catch { res.json({ hasToken: false }) }
CheckCatch == [status |-> 200, hasToken |-> FALSE]

\* The provider issues a fresh token pair per exchange.
AccessTokenOf(r) == "A" \o ToString(r)

RefreshTokenOf(r) == "R" \o ToString(r)

\* The response is sent and the handler returns: its locals are gone.
Respond(rec, ans) ==
  [rec EXCEPT !.pc = "done", !.status = ans.status, !.body = ans.body,
              !.accessToken = "undefined", !.refreshToken = "undefined",
              !.discordUserId = "undefined"]

\* The answer is sent and the handler returns: its local userId is gone.
CheckRespond(rec, ans) ==
  [rec EXCEPT !.pc = "done", !.status = ans.status, !.hasToken = ans.hasToken,
              !.userId = "undefined"]

(* ----------------------- module load, initDatabase -------------------- *)
\* Lines 160-174, 209, 329 (first copy 16-23, 47, 135): the module body creates the
\* pool, calls initDatabase(), which runs up to its first await, and listens.
ModuleLoad ==
  /\ ~loaded
  /\ loaded' = TRUE
  /\ dbPool' = IF build = "v1" THEN CreatePoolV1 ELSE CreatePoolV2
  /\ IF build = "v2" /\ dbPool' = "null"
       THEN initPc' = "done" /\ initResult' = "skipped"
       ELSE initPc' = "awaitConn" /\ initResult' = "none"
  /\ UNCHANGED <<config, poolEnded, rows, nextId, tokensLog, cb, chk, upserted>>

\* The catch block of initDatabase.  Second copy, lines 192-203: dbPool.end() is
\* called and awaited.  First copy, lines 40-44: the error is logged only.
InitCatch ==
  IF build = "v1"
    THEN /\ initPc' = "done"
         /\ initResult' = "failed"
         /\ UNCHANGED poolEnded
    ELSE /\ initPc' = "awaitEnd"
         /\ initResult' = "none"
         /\ poolEnded' = TRUE

\* Line 181: conn = await dbPool.getConnection() settles.
InitConnResult(ok) ==
  /\ initPc = "awaitConn"
  /\ ok => ~poolEnded
  /\ IF ok
       THEN initPc' = "awaitCreate" /\ UNCHANGED <<initResult, poolEnded>>
       ELSE InitCatch
  /\ UNCHANGED <<config, loaded, dbPool, rows, nextId, tokensLog, cb, chk, upserted>>

\* Lines 182-191: await conn.query(CREATE TABLE IF NOT EXISTS Tokens ...) settles.
InitCreateResult(ok) ==
  /\ initPc = "awaitCreate"
  /\ IF ok
       THEN /\ initPc' = "done"
            /\ initResult' = "ok"
            /\ UNCHANGED poolEnded
       ELSE InitCatch
  /\ UNCHANGED <<config, loaded, dbPool, rows, nextId, tokensLog, cb, chk, upserted>>

\* Lines 197-206: await dbPool.end() settles (resolved or rejected), dbPool = null.
InitEndResult ==
  /\ initPc = "awaitEnd"
  /\ dbPool' = "null"
  /\ initPc' = "done"
  /\ initResult' = "failed"
  /\ UNCHANGED <<config, loaded, poolEnded, rows, nextId, tokensLog, cb, chk, upserted>>

(* ------------------------------ /callback ----------------------------- *)
\* Requests are numbered in arrival order.
Arrived(r) == IF r = 1 THEN TRUE ELSE cb[r - 1].pc # "idle"

\* Lines 213-237: entry, validation, axios.post(token endpoint) issued.
CallbackReceive(r, code) ==
  /\ loaded
  /\ cb[r].pc = "idle"
  /\ Arrived(r)
  /\ cb' = [cb EXCEPT ![r] =
       IF CodeMissing(code)
         THEN Respond([@ EXCEPT !.code = code],
                      [status |-> 400, body |-> "CODIGO_AUSENTE"])
       ELSE IF ConfigMissing
         THEN Respond([@ EXCEPT !.code = code],
                      [status |-> 500, body |-> "VARIAVEIS_NAO_CONFIGURADAS"])
       ELSE [@ EXCEPT !.code = code, !.pc = "awaitToken",
                      !.exchangeCalls = @ + 1]]
  /\ UNCHANGED <<config, loaded, dbPool, poolEnded, initPc, initResult,
                 rows, nextId, tokensLog, chk, upserted>>

\* Lines 235-245: the token POST resolves; the tokens are read from the response
\* (refresh_token may be absent) and axios.get(users/@me) is issued.
CallbackTokenOk(r, hasRefresh) ==
  /\ cb[r].pc = "awaitToken"
  /\ cb' = [cb EXCEPT ![r] =
       [@ EXCEPT !.tokenOutcome = "ok",
                 !.accessToken = AccessTokenOf(r),
                 !.refreshToken = IF hasRefresh THEN RefreshTokenOf(r) ELSE "undefined",
                 !.profileCalls = IF IssuesProfileFetch("ok") THEN @ + 1 ELSE @,
                 !.pc = "awaitUser"]]
  /\ UNCHANGED <<config, loaded, dbPool, poolEnded, initPc, initResult,
                 rows, nextId, tokensLog, chk, upserted>>

\* Lines 235-237, 294-307: the token POST rejects; the catch block answers.
CallbackTokenFail(r, err) ==
  /\ cb[r].pc = "awaitToken"
  /\ cb' = [cb EXCEPT ![r] =
       Respond([@ EXCEPT !.tokenOutcome = err,
                         !.profileCalls = IF IssuesProfileFetch(err) THEN @ + 1 ELSE @],
               CatchCallback(err))]
  /\ UNCHANGED <<config, loaded, dbPool, poolEnded, initPc, initResult,
                 rows, nextId, tokensLog, chk, upserted>>

\* Lines 243-245, 294-307: the profile GET rejects; the catch block answers.
CallbackUserFail(r, err) ==
  /\ cb[r].pc = "awaitUser"
  /\ cb' = [cb EXCEPT ![r] = Respond([@ EXCEPT !.userOutcome = err], CatchCallback(err))]
  /\ UNCHANGED <<config, loaded, dbPool, poolEnded, initPc, initResult,
                 rows, nextId, tokensLog, chk, upserted>>

\* Lines 243-253: the profile GET resolves, discordUserId is read, `if (dbPool)`
\* is true: dbPool.getConnection() is called and awaited.
CallbackUserOkPool(r, uid) ==
  /\ cb[r].pc = "awaitUser"
  /\ dbPool # "null"
  /\ cb' = [cb EXCEPT ![r] =
       [@ EXCEPT !.userOutcome = "ok", !.discordUserId = uid, !.sawPool = "pool",
                 !.connCalls = @ + 1, !.pc = "awaitConn"]]
  /\ UNCHANGED <<config, loaded, dbPool, poolEnded, initPc, initResult,
                 rows, nextId, tokensLog, chk, upserted>>

\* Lines 243-250, 266-293: the profile GET resolves, discordUserId is read,
\* `if (dbPool)` is false: the file fallback runs synchronously (fileOk:
\* fs.appendFileSync returned rather than threw) and the page is sent.
CallbackUserOkNoPool(r, uid, fileOk) ==
  /\ cb[r].pc = "awaitUser"
  /\ dbPool = "null"
  /\ UseFile \/ fileOk
  /\ cb' = [cb EXCEPT ![r] =
       Respond([@ EXCEPT !.userOutcome = "ok", !.sawPool = "null",
                         !.fileCalls = IF UseFile THEN @ + 1 ELSE @,
                         !.fileErr = UseFile /\ ~fileOk],
               SuccessPage)]
  /\ tokensLog' =
       IF UseFile /\ fileOk
         THEN Append(tokensLog, FallbackRecord(uid, cb[r].accessToken, cb[r].refreshToken))
         ELSE tokensLog
  /\ UNCHANGED <<config, loaded, dbPool, poolEnded, initPc, initResult,
                 rows, nextId, chk, upserted>>

\* Lines 253-254: getConnection() resolves and the INSERT is sent.
\* A pool on which end() was called hands out no connection.
CallbackConnOk(r) ==
  /\ cb[r].pc = "awaitConn"
  /\ ~poolEnded
  /\ cb' = [cb EXCEPT ![r] = [@ EXCEPT !.insertCalls = @ + 1, !.pc = "awaitInsert"]]
  /\ UNCHANGED <<config, loaded, dbPool, poolEnded, initPc, initResult,
                 rows, nextId, tokensLog, chk, upserted>>

\* Lines 253, 261-293 (first copy 90, 98-113): getConnection() rejects.
CallbackConnFail(r) ==
  /\ cb[r].pc = "awaitConn"
  /\ cb' = [cb EXCEPT ![r] = Respond(@, OnPersistError)]
  /\ UNCHANGED <<config, loaded, dbPool, poolEnded, initPc, initResult,
                 rows, nextId, tokensLog, chk, upserted>>

\* Lines 254-260, 263-293: the INSERT ... ON DUPLICATE KEY UPDATE succeeds, the
\* connection is released and the page is sent.
CallbackInsertOk(r) ==
  /\ cb[r].pc = "awaitInsert"
  /\ rows' = Upsert(rows, nextId, cb[r].discordUserId, cb[r].accessToken,
                    cb[r].refreshToken)
  /\ nextId' = IF Cardinality(rows') > Cardinality(rows) THEN nextId + 1 ELSE nextId
  /\ upserted' = upserted \cup {cb[r].discordUserId}
  /\ cb' = [cb EXCEPT ![r] = Respond([@ EXCEPT !.insertOk = TRUE], SuccessPage)]
  /\ UNCHANGED <<config, loaded, dbPool, poolEnded, initPc, initResult, tokensLog, chk>>

\* Lines 254-259, 261-293 (first copy 91-96, 98-113): the INSERT fails.
CallbackInsertFail(r) ==
  /\ cb[r].pc = "awaitInsert"
  /\ cb' = [cb EXCEPT ![r] = Respond(@, OnPersistError)]
  /\ UNCHANGED <<config, loaded, dbPool, poolEnded, initPc, initResult,
                 rows, nextId, tokensLog, chk, upserted>>

(* -------------------------------- /check ------------------------------ *)
\* /check handlers only read the shared state, so two of them never affect each
\* other: the model runs one at a time, any number of them one after another.
\*
\* Lines 313-319: entry; a missing user_id is answered at once; otherwise
\* dbPool.getConnection() is called inside the try: on a null dbPool the call
\* throws a TypeError, which the catch of lines 322-323 answers.
CheckReceive(uid) ==
  /\ loaded
  /\ chk.pc \in {"idle", "done"}
  /\ chk' =
       IF Falsy(uid) THEN CheckRespond([chk0 EXCEPT !.noUser = TRUE], CheckNoUser)
       ELSE IF dbPool = "null" THEN CheckRespond([chk0 EXCEPT !.userId = uid], CheckCatch)
       ELSE [chk0 EXCEPT !.userId = uid, !.connCalls = 1, !.pc = "awaitConn"]
  /\ UNCHANGED <<config, loaded, dbPool, poolEnded, initPc, initResult,
                 rows, nextId, tokensLog, cb, upserted>>

\* Lines 319-320: getConnection() settles; on success the SELECT is sent.
CheckConnResult(ok) ==
  /\ chk.pc = "awaitConn"
  /\ ok => ~poolEnded
  /\ chk' = IF ok THEN [chk EXCEPT !.selectCalls = @ + 1, !.pc = "awaitSelect"]
                  ELSE CheckRespond(chk, CheckCatch)
  /\ UNCHANGED <<config, loaded, dbPool, poolEnded, initPc, initResult,
                 rows, nextId, tokensLog, cb, upserted>>

\* Lines 320-326: the SELECT settles and the answer is sent.
CheckSelectResult(ok) ==
  /\ chk.pc = "awaitSelect"
  /\ chk' = IF ok THEN CheckRespond([chk EXCEPT !.selectOk = TRUE],
                                    CheckAnswer(rows, chk.userId))
                  ELSE CheckRespond(chk, CheckCatch)
  /\ UNCHANGED <<config, loaded, dbPool, poolEnded, initPc, initResult,
                 rows, nextId, tokensLog, cb, upserted>>

(* ---------------------------- specification --------------------------- *)
Errors == {"invalid_grant", "other"}

Next ==
  \/ ModuleLoad
  \/ \E ok \in BOOLEAN : InitConnResult(ok)
  \/ \E ok \in BOOLEAN : InitCreateResult(ok)
  \/ InitEndResult
  \/ \E r \in Reqs, code \in {"undefined", "ABC"} : CallbackReceive(r, code)
  \/ \E r \in Reqs, hasRefresh \in BOOLEAN : CallbackTokenOk(r, hasRefresh)
  \/ \E r \in Reqs, err \in Errors : CallbackTokenFail(r, err)
  \/ \E r \in Reqs : CallbackUserFail(r, "other")
  \/ \E r \in Reqs, uid \in UserIds : CallbackUserOkPool(r, uid)
  \/ \E r \in Reqs, uid \in UserIds, fileOk \in BOOLEAN : CallbackUserOkNoPool(r, uid, fileOk)
  \/ \E r \in Reqs : CallbackConnOk(r)
  \/ \E r \in Reqs : CallbackConnFail(r)
  \/ \E r \in Reqs : CallbackInsertOk(r)
  \/ \E r \in Reqs : CallbackInsertFail(r)
  \/ \E uid \in UserIds \cup {"undefined"} : CheckReceive(uid)
  \/ \E ok \in BOOLEAN : CheckConnResult(ok)
  \/ \E ok \in BOOLEAN : CheckSelectResult(ok)

Spec == Init /\ [][Next]_vars

(* ------------------------------- claims ------------------------------- *)
Done(r) == cb[r].pc = "done"

ExchangeSucceeded(r) == cb[r].tokenOutcome = "ok" /\ cb[r].userOutcome = "ok"

AnyEnvUnset == \E k \in DOMAIN env : ~env[k]

NoOutboundOrStorage(r) ==
  /\ cb[r].exchangeCalls = 0
  /\ cb[r].profileCalls = 0
  /\ cb[r].connCalls = 0
  /\ cb[r].insertCalls = 0
  /\ cb[r].fileCalls = 0

\* The lines of tokens.log that carry the access token issued to request r.
LinesOf(r) == {i \in DOMAIN tokensLog : tokensLog[i].access_token = AccessTokenOf(r)}

\* C1: every /callback request whose token exchange and profile fetch both
\* succeeded is answered 200 with the fixed confirmation page, whatever happened
\* to the database write or to the file fallback.
C1_SuccessAlways200 ==
  \A r \in Reqs :
    Done(r) /\ ExchangeSucceeded(r)
      => cb[r].status = 200 /\ cb[r].body = "HTML_AUTORIZADO"

\* C1, for the second copy alone (lines 213-308): there the statement holds.
C1_SecondCopy200 == build = "v2" => C1_SuccessAlways200

\* C2: in the second copy, a token exchange answered error=invalid_grant is
\* answered 400 with the restart-the-flow message, in every configuration.
C2_InvalidGrant400 ==
  \A r \in Reqs :
    build = "v2" /\ Done(r) /\ cb[r].tokenOutcome = "invalid_grant"
      => cb[r].status = 400 /\ cb[r].body = "REINICIE_O_FLUXO"

\* C2, without DEBUG: the statement holds when DEBUG is not 'true'.
C2_InvalidGrant400NoDebug == DEBUG # "true" => C2_InvalidGrant400

\* C3: a request that passed validation made exactly one token-exchange call;
\* the profile fetch is made exactly once and only after the exchange succeeded;
\* after a failed exchange there is no profile fetch, no storage call and no
\* fallback write; no call is ever made twice.
C3_CallsOnceInOrder ==
  \A r \in Reqs :
    /\ cb[r].exchangeCalls <= 1 /\ cb[r].profileCalls <= 1
    /\ cb[r].connCalls <= 1 /\ cb[r].insertCalls <= 1 /\ cb[r].fileCalls <= 1
    /\ (cb[r].pc # "idle" /\ ~Falsy(cb[r].code) /\ ~AnyEnvUnset)
         => cb[r].exchangeCalls = 1
    /\ cb[r].profileCalls = 1 <=> cb[r].tokenOutcome = "ok"
    /\ cb[r].profileCalls = 1 => cb[r].exchangeCalls = 1
    /\ cb[r].tokenOutcome \in Errors
         => /\ cb[r].profileCalls = 0 /\ cb[r].connCalls = 0
            /\ cb[r].insertCalls = 0 /\ cb[r].fileCalls = 0
            /\ LinesOf(r) = {}
    /\ cb[r].connCalls + cb[r].insertCalls + cb[r].fileCalls > 0
         => ExchangeSucceeded(r)

C3_Witness ==
  \E r1, r2 \in Reqs :
    /\ Done(r1) /\ cb[r1].tokenOutcome = "invalid_grant"
    /\ cb[r1].exchangeCalls = 1 /\ cb[r1].profileCalls = 0
    /\ Done(r2) /\ ExchangeSucceeded(r2)
    /\ cb[r2].exchangeCalls = 1 /\ cb[r2].profileCalls = 1 /\ cb[r2].insertCalls = 1

\* C4: every /check request is answered 200 with a boolean hasToken; whenever the
\* lookup did not complete (no pool, closed pool, no connection, SELECT failed)
\* the answer is false; without user_id the answer is false and storage is not
\* touched.
C4_CheckAlways200 ==
  chk.pc = "done" =>
    /\ chk.status = 200
    /\ chk.hasToken \in BOOLEAN
    /\ ~chk.selectOk => chk.hasToken = FALSE
    /\ chk.noUser => ~chk.hasToken /\ chk.connCalls = 0 /\ chk.selectCalls = 0

\* A /check with a user_id answered while dbPool is null after a failed
\* initialization: the TypeError path of line 319.
C4_Witness ==
  /\ chk.pc = "done" /\ ~chk.noUser /\ chk.connCalls = 0
  /\ dbPool = "null" /\ initResult = "failed"
  /\ chk.status = 200 /\ ~chk.hasToken

\* C5 (state part): Tokens holds at most one row per user_id.
OneRowPerUser == \A x, y \in rows : x.user_id = y.user_id => x = y

\* C5 (step part): a successful upsert of request r leaves exactly one row for
\* its user, holding the access and refresh token of r.
LastUpsertWins ==
  \A r \in Reqs :
    (cb[r].pc = "awaitInsert" /\ cb'[r].pc = "done" /\ cb'[r].insertOk) =>
      LET mine == {row \in rows' : row.user_id = cb[r].discordUserId} IN
      /\ Cardinality(mine) = 1
      /\ \A row \in mine :
           /\ row.access_token = cb[r].accessToken
           /\ row.refresh_token =
                (IF cb[r].refreshToken = "undefined" THEN "" ELSE cb[r].refreshToken)

\* C5: after any sequence of successful upserts, overlapping requests included,
\* there is at most one row per user_id, and the row of a user holds the tokens
\* of the upsert executed last.
C5_UpsertOneRowLastWins == []OneRowPerUser /\ [][LastUpsertWins]_vars

\* Two requests upserted for the same user and one row is left, holding the
\* tokens of the second upsert executed (request 2 after request 1).
C5_Witness ==
  /\ cb[1].insertOk /\ cb[2].insertOk
  /\ rows = {[id |-> 1, user_id |-> "U1", access_token |-> "A2", refresh_token |-> "R2"]}

\* C6 (step part): a /check whose connection and SELECT succeeded answers true
\* exactly when an upsert for its user has succeeded before.
CheckAnswersUpserted ==
  (chk.pc = "awaitSelect" /\ chk'.pc = "done" /\ chk'.selectOk)
    => chk'.hasToken = (chk.userId \in upserted)

\* C6 (step part): no row is ever deleted.
NeverDeleted ==
  \A u \in UserIds :
    (\E row \in rows : row.user_id = u) => (\E row \in rows' : row.user_id = u)

\* C6: with the pool enabled and the storage answering, /check?user_id=u is true
\* at any time after an upsert for u succeeded and false for a u never upserted;
\* rows are never deleted, so the answer does not revert.
C6_CheckReflectsUpserts ==
  [](upserted = {row.user_id : row \in rows})
    /\ [][CheckAnswersUpserted /\ NeverDeleted]_vars

C6_Witness ==
  /\ chk.pc = "done" /\ chk.selectOk /\ chk.hasToken
  /\ Cardinality(upserted) = 1

\* C7: a request with a successful exchange makes one append of one line
\* {created_at, user_id, access_token, refresh_token} to tokens.log when it found
\* dbPool null and FILE_FALLBACK is 'true' (the line is in the file unless
\* appendFileSync threw); it appends nothing when FILE_FALLBACK is anything else,
\* and nothing when it found a pool; the file holds no other lines.
C7_FileFallbackOnlyWhenDisabledAndOptIn ==
  /\ \A r \in Reqs :
       /\ (Done(r) /\ ExchangeSucceeded(r) /\ cb[r].sawPool = "null"
             /\ FILE_FALLBACK = "true")
            => /\ cb[r].fileCalls = 1
               /\ Cardinality(LinesOf(r)) = (IF cb[r].fileErr THEN 0 ELSE 1)
               /\ cb[r].connCalls = 0 /\ cb[r].insertCalls = 0
       /\ FILE_FALLBACK # "true" => cb[r].fileCalls = 0 /\ LinesOf(r) = {}
       /\ cb[r].sawPool = "pool" => cb[r].fileCalls = 0 /\ LinesOf(r) = {}
       /\ ~(Done(r) /\ ExchangeSucceeded(r)) => cb[r].fileCalls = 0 /\ LinesOf(r) = {}
  /\ \A i \in DOMAIN tokensLog :
       /\ DOMAIN tokensLog[i] = {"created_at", "user_id", "access_token", "refresh_token"}
       /\ tokensLog[i].user_id \in UserIds
       /\ \E r \in Reqs : i \in LinesOf(r)

\* A request answered after a failed initialization closed the pool, whose line
\* is in tokens.log.
C7_Witness ==
  \E r \in Reqs :
    /\ Done(r) /\ cb[r].sawPool = "null" /\ FILE_FALLBACK = "true"
    /\ initResult = "failed"
    /\ Cardinality(LinesOf(r)) = 1 /\ cb[r].status = 200

\* C8 as stated: whenever one of REDIRECT_URI, CLIENT_ID, CLIENT_SECRET is unset,
\* every /callback request is answered 500 and makes no call.
C8_ConfigMissingAlways500 ==
  \A r \in Reqs :
    Done(r) /\ AnyEnvUnset => cb[r].status = 500 /\ NoOutboundOrStorage(r)

\* C8 amended: whenever one of REDIRECT_URI, CLIENT_ID, CLIENT_SECRET is unset,
\* every /callback request that carries a code is answered 500 with the fixed
\* message, and no request makes a token-exchange call, a profile fetch, a
\* storage call or a fallback write.
C8_ConfigMissing500WithCode ==
  \A r \in Reqs :
    AnyEnvUnset =>
      /\ NoOutboundOrStorage(r)
      /\ LinesOf(r) = {} /\ rows = {}
      /\ Done(r) /\ ~Falsy(cb[r].code)
           => cb[r].status = 500 /\ cb[r].body = "VARIAVEIS_NAO_CONFIGURADAS"

\* Exactly one of the three is unset and a request with a code was answered.
C8_Witness ==
  \E r \in Reqs :
    /\ Done(r) /\ cb[r].code = "ABC" /\ cb[r].status = 500
    /\ ~env["CLIENT_SECRET"] /\ env["CLIENT_ID"] /\ env["REDIRECT_URI"]

\* C9: every /callback request without a code parameter is answered 400 with the
\* fixed message and makes no token-exchange call, profile fetch, storage call
\* or fallback write.
C9_MissingCode400 ==
  \A r \in Reqs :
    Done(r) /\ cb[r].code = "undefined"
      => /\ cb[r].status = 400 /\ cb[r].body = "CODIGO_AUSENTE"
         /\ NoOutboundOrStorage(r) /\ LinesOf(r) = {}

\* A request without code answered with the configuration complete and another
\* one with the configuration missing are both covered; this is the first.
C9_Witness ==
  \E r \in Reqs :
    Done(r) /\ cb[r].code = "undefined" /\ cb[r].status = 400 /\ ~AnyEnvUnset

\* C10: with FILE_FALLBACK='true' and database configuration present but the
\* initialization failing, every request answered 200 whose fallback write did
\* not throw has its token in the database or in tokens.log.
C10_NoTokenLostOnInitFailure ==
  (build = "v2" /\ hasDbConfig /\ FILE_FALLBACK = "true" /\ initResult = "failed") =>
    \A r \in Reqs :
      (Done(r) /\ cb[r].status = 200 /\ ~cb[r].fileErr)
        => cb[r].insertOk \/ LinesOf(r) # {}

\* C10, for the requests that test dbPool after initDatabase set it to null:
\* for them the statement holds.
C10_AfterInitFailure ==
  (build = "v2" /\ FILE_FALLBACK = "true") =>
    \A r \in Reqs :
      (Done(r) /\ cb[r].status = 200 /\ cb[r].sawPool = "null" /\ ~cb[r].fileErr)
        => LinesOf(r) # {}

====
